---- MODULE Spec2Model ----
(***************************************************************************)
(* A model of the Currency class (src/source/source.ts) and of the event   *)
(* emitter (src/unnamed/part_000).                                         *)
(*                                                                         *)
(* JavaScript numbers are modelled as exact rationals n/d (kind "fin")     *)
(* together with the special values Infinity, -Infinity and NaN.  The      *)
(* binary rounding error of a double is far below the fourth decimal that  *)
(* parse() rounds to (toFixed(4)), so on the amounts used here the exact    *)
(* rational and the double agree after every parse.  The sign of a zero is  *)
(* not modelled (-0 is identified with 0).                                  *)
(* Strings are sequences of one-character strings.                         *)
(***************************************************************************)
EXTENDS Integers, Sequences, FiniteSets

\* ------------------------------------------------------------- bounds
\* the caller constructs new values while the receiver it holds is of at most
\* MaxAmount smallest units
MaxAmount == 12
\* distribute(count) is called with count in 1 .. MaxCount
MaxCount == 3
\* at most MaxHandlers registrations per event type in the emitter
MaxHandlers == 3

\* ------------------------------------------------------------ numbers
Abs(i) == IF i < 0 THEN -i ELSE i

Sign(i) == IF i < 0 THEN -1 ELSE IF i > 0 THEN 1 ELSE 0

RECURSIVE GCD(_, _)
GCD(a, b) == IF b = 0 THEN a ELSE GCD(b, a % b)

Reduced(n, d, g) == [k |-> "fin", n |-> n \div g, d |-> d \div g]

\* the finite number n/d, in lowest terms (d > 0)
Fin(n, d) == Reduced(n, d, GCD(Abs(n), d))

Int2Num(i) == [k |-> "fin", n |-> i, d |-> 1]
Infinity(s) == [k |-> "inf", n |-> s, d |-> 1]
NaN == [k |-> "nan", n |-> 0, d |-> 1]
\* the completion of parse by `throw Error('Invalid Input')`
Thrown == [k |-> "throw", n |-> 0, d |-> 1]
Zero == Int2Num(0)

IsFin(x) == x.k = "fin"
IsInteger(x) == x.k = "fin" /\ x.d = 1
\* ToBoolean of a number: 0 and NaN are falsy
Truthy(x) == ~(x.k = "nan" \/ (x.k = "fin" /\ x.n = 0))
SignOf(x) == IF x.k = "nan" THEN 0 ELSE Sign(x.n)

Neg(x) == [x EXCEPT !.n = -x.n]

NumMul(a, b) ==
    IF a.k = "nan" \/ b.k = "nan" THEN NaN
    ELSE IF a.k = "fin" /\ b.k = "fin" THEN Fin(a.n * b.n, a.d * b.d)
    ELSE IF SignOf(a) = 0 \/ SignOf(b) = 0 THEN NaN
    ELSE Infinity(SignOf(a) * SignOf(b))

NumDiv(a, b) ==
    IF a.k = "nan" \/ b.k = "nan" THEN NaN
    ELSE IF a.k = "inf" /\ b.k = "inf" THEN NaN
    ELSE IF a.k = "inf" THEN Infinity(IF SignOf(b) < 0 THEN -a.n ELSE a.n)
    ELSE IF b.k = "inf" THEN Zero
    ELSE IF b.n = 0 THEN (IF a.n = 0 THEN NaN ELSE Infinity(Sign(a.n)))
    ELSE Fin(a.n * b.d * Sign(b.n), a.d * Abs(b.n))

NumAdd(a, b) ==
    IF a.k = "nan" \/ b.k = "nan" THEN NaN
    ELSE IF a.k = "inf" /\ b.k = "inf" THEN (IF a.n = b.n THEN a ELSE NaN)
    ELSE IF a.k = "inf" THEN a
    ELSE IF b.k = "inf" THEN b
    ELSE Fin(a.n * b.d + b.n * a.d, a.d * b.d)

NumSub(a, b) == NumAdd(a, Neg(b))

\* Math.abs
NumAbs(a) == [a EXCEPT !.n = Abs(a.n)]

\* a >= 0 (false for NaN)
NonNeg(a) == a.k # "nan" /\ a.n >= 0

RECURSIVE Pow10(_)
Pow10(p) == IF p = 0 THEN 1 ELSE 10 * Pow10(p - 1)

\* Math.floor and Math.ceil
Floor(x) == IF IsFin(x) THEN Int2Num(x.n \div x.d) ELSE x
Ceil(x) == IF IsFin(x) THEN Int2Num(-((-x.n) \div x.d)) ELSE x

\* m / d rounded to the nearest integer, a tie upwards (m >= 0, d > 0)
RoundedQuotient(m, d) == IF 2 * (m % d) >= d THEN (m \div d) + 1 ELSE m \div d

\* the whole part and the fraction (in units of 1/unit) after the fraction
\* was rounded to f units
Carried(whole, f, unit) ==
    IF f = unit THEN [whole |-> whole + 1, frac |-> 0]
    ELSE [whole |-> whole, frac |-> f]

\* |x| rounded to `digits` decimals, a tie upwards, as
\* Number.prototype.toFixed(digits) prints it: the whole part, and the
\* fraction in units of 10^-digits
FixedParts(x, digits) ==
    Carried(Abs(x.n) \div x.d,
            RoundedQuotient((Abs(x.n) % x.d) * Pow10(digits), x.d),
            Pow10(digits))

\* sign * (whole + f), f a fraction in lowest terms
WholePlus(sign, whole, f) == Fin(sign * (whole * f.d + f.n), f.d)

NumOfParts(sign, parts, unit) == WholePlus(sign, parts.whole, Fin(parts.frac, unit))

\* Number(x.toFixed(digits))
ToFixedNum(x, digits) ==
    IF IsFin(x) THEN NumOfParts(Sign(x.n), FixedParts(x, digits), Pow10(digits))
    ELSE x

\* ------------------------------------------------------------ strings
Chars(s) == {s[i] : i \in 1..Len(s)}

DigitChars == <<"0", "1", "2", "3", "4", "5", "6", "7", "8", "9">>

IsDigit(c) == \E i \in 1..10 : DigitChars[i] = c

DigitVal(c) == (CHOOSE i \in 1..10 : DigitChars[i] = c) - 1

Count(s, c) == Cardinality({i \in 1..Len(s) : s[i] = c})

\* the index of the first c in s (c occurs in s)
FirstIndex(s, c) == CHOOSE j \in 1..Len(s) : s[j] = c /\ \A h \in 1..(j - 1) : s[h] # c

\* the index of the last c in s (c occurs in s)
LastIndex(s, c) == CHOOSE j \in 1..Len(s) : s[j] = c /\ \A h \in (j + 1)..Len(s) : s[h] # c

RECURSIVE DigitsToInt(_)
DigitsToInt(s) ==
    IF s = <<>> THEN 0
    ELSE 10 * DigitsToInt(SubSeq(s, 1, Len(s) - 1)) + DigitVal(s[Len(s)])

\* the decimal digits of a natural number, most significant first
RECURSIVE IntToDigits(_)
IntToDigits(i) ==
    IF i < 10 THEN <<DigitChars[i + 1]>>
    ELSE Append(IntToDigits(i \div 10), DigitChars[(i % 10) + 1])

RECURSIVE PadLeft(_, _)
PadLeft(s, len) == IF Len(s) >= len THEN s ELSE PadLeft(<<"0">> \o s, len)

\* s with the characters from position i to position j replaced by `by`
Splice(s, i, j, by) == SubSeq(s, 1, i - 1) \o by \o SubSeq(s, j + 1, Len(s))

\* String.prototype.replace(c, by) with a string pattern: the first occurrence
ReplaceFirst(s, c, by) ==
    IF c \notin Chars(s) THEN s
    ELSE Splice(s, FirstIndex(s, c), FirstIndex(s, c), by)

\* value.replace(/\((.*)\)/, '-$1'): the first "(" that has a ")" after it, up
\* to the last ")", becomes "-" followed by what the parentheses hold
ReplaceParens(s) ==
    IF "(" \in Chars(s) /\ ")" \in Chars(s) /\ FirstIndex(s, "(") < LastIndex(s, ")")
    THEN Splice(s, FirstIndex(s, "("), LastIndex(s, ")"),
                <<"-">> \o SubSeq(s, FirstIndex(s, "(") + 1, LastIndex(s, ")") - 1))
    ELSE s

\* .replace(new RegExp('[^-\\d' + decimal + ']', 'g'), '')
StripNonNumeric(s, decimal) ==
    LET Keep(c) == c = "-" \/ IsDigit(c) \/ c = decimal
    IN  SelectSeq(s, Keep)

\* .replace(new RegExp('\\' + decimal, 'g'), '.')
DecimalToDot(s, decimal) ==
    [i \in 1..Len(s) |-> IF s[i] = decimal THEN "." ELSE s[i]]

\* the number of characters after the "." of body, 0 when there is none
FractionLength(body) ==
    IF "." \in Chars(body) THEN Len(body) - FirstIndex(body, ".") ELSE 0

\* Number(body) for a string of digits, "-" and "." that is not empty: digits
\* with at most one "." among them, anything else NaN
UnsignedNumber(body) ==
    IF Count(body, "-") > 0 \/ Count(body, ".") > 1 \/ SelectSeq(body, IsDigit) = <<>>
    THEN NaN
    ELSE Fin(DigitsToInt(SelectSeq(body, IsDigit)), Pow10(FractionLength(body)))

\* Number(s) for a string of digits, "-" and ".": an optional leading "-",
\* then an unsigned number; "" is 0
NumberOfString(s) ==
    IF s = <<>> THEN Zero
    ELSE IF s[1] = "-" THEN Neg(UnsignedNumber(Tail(s)))
    ELSE UnsignedNumber(s)

\* --------------------------------------------------- module-level helpers
\* whole = floor(n / d) or the integer above it, whichever is nearer to n / d,
\* the upper one on a tie
NearestUpOnTie(n, d, whole) == IF 2 * (n - whole * d) >= d THEN whole + 1 ELSE whole

\* const round = (v) => Math.round(v): the nearest integer, a tie towards
\* +Infinity
round(v) == IF IsFin(v) THEN Int2Num(NearestUpOnTie(v.n, v.d, v.n \div v.d)) ELSE v

\* const pow = (p) => Math.pow(10, p)
pow(p) == Int2Num(Pow10(p))

\* const rounding = (value, increment) => round(value / increment) * increment
rounding(value, increment) == NumMul(round(NumDiv(value, increment)), increment)

\* the literal the module-level `defaults` is initialised with
DefaultsLiteral ==
    [symbol |-> <<"$">>, separator |-> <<",">>, decimal |-> ".",
     formatWithSymbol |-> FALSE, errorOnInvalid |-> FALSE, precision |-> 2,
     pattern |-> <<"!", "#">>, negativePattern |-> <<"-", "!", "#">>]

\* Object.assign({}, a, b): b's fields over a's
Merge(a, b) ==
    [f \in DOMAIN a \cup DOMAIN b |-> IF f \in DOMAIN b THEN b[f] ELSE a[f]]

\* ------------------------------------------------------------- values
\* an argument of the constructor or of an operation: a number, a string, a
\* Currency (of which parse reads the value field, held in num), a boolean
\* (num is 1 or 0) or undefined
NumVal(x) == [t |-> "num", num |-> x, str |-> <<>>]
StrVal(s) == [t |-> "str", num |-> Zero, str |-> s]
CurVal(c) == [t |-> "cur", num |-> c.value, str |-> <<>>]
BoolVal(b) == [t |-> "bool", num |-> Int2Num(IF b THEN 1 ELSE 0), str |-> <<>>]
Undefined == [t |-> "undef", num |-> Zero, str |-> <<>>]

\* the string parse hands to Number(): parenthesised negatives rewritten,
\* everything but digits, "-" and the decimal character stripped, the decimal
\* character rewritten to "."
replacedValue(str, decimal) ==
    DecimalToDot(StripNonNumeric(ReplaceParens(str), decimal), decimal)

\* v = v || 0
OrZero(v) == IF Truthy(v) THEN v ELSE Zero

\* the value of v parse leaves each branch with, or Thrown
Scaled(value, precision, errorOnInvalid, decimal) ==
    CASE value.t = "cur" -> NumMul(value.num, precision)
      [] value.t = "num" -> NumMul(value.num, precision)
      [] value.t = "str" ->
             OrZero(NumMul(NumberOfString(replacedValue(value.str, decimal)), precision))
      [] OTHER -> (IF errorOnInvalid THEN Thrown ELSE Zero)

\* v = Number(v.toFixed(4)); return useRounding ? round(v) : v
Rounded(v, useRounding) ==
    IF v = Thrown THEN Thrown
    ELSE IF useRounding THEN round(ToFixedNum(v, 4))
    ELSE ToFixedNum(v, 4)

\* Currency.parse(value, opts, useRounding)
parse(value, opts, useRounding) ==
    Rounded(Scaled(value, pow(opts.precision), opts.errorOnInvalid, opts.decimal),
            useRounding)

\* ------------------------------------------------------------ results
\* what a call returns: a Currency, an array of them, a number, a string,
\* undefined, or the completion by a thrown error
RCurrency(c) == [kind |-> "currency", items |-> <<c>>, num |-> Zero, str |-> <<>>]
RArray(cs) == [kind |-> "array", items |-> cs, num |-> Zero, str |-> <<>>]
RNumber(x) == [kind |-> "number", items |-> <<>>, num |-> x, str |-> <<>>]
RString(s) == [kind |-> "string", items |-> <<>>, num |-> Zero, str |-> s]
RUndefined == [kind |-> "undefined", items |-> <<>>, num |-> Zero, str |-> <<>>]
RThrow == [kind |-> "throw", items |-> <<>>, num |-> Zero, str |-> <<>>]
RNone == [kind |-> "none", items |-> <<>>, num |-> Zero, str |-> <<>>]

\* ------------------------------------------------------------ Currency
\* settings.increment = settings.increment || 1 / precision, and the choice of
\* settings.groups
CompleteSettings(settings, precision) ==
    Merge(settings,
          [increment |->
               IF "increment" \in DOMAIN settings /\ Truthy(settings.increment)
               THEN settings.increment
               ELSE NumDiv(Int2Num(1), precision),
           groups |->
               IF "useVedic" \in DOMAIN settings /\ settings.useVedic
               THEN "vedicRegex"
               ELSE "groupRegex"])

\* the fields the constructor sets once parse returned v (or its completion by
\* the error parse threw)
NewCurrency(v, settings, precision) ==
    IF v = Thrown THEN RThrow
    ELSE RCurrency([intValue |-> v,
                    value |-> NumDiv(v, precision),
                    _settings |-> CompleteSettings(settings, precision),
                    _precision |-> precision])

\* the constructor after settings = Object.assign({}, defaults, opts)
ConstructWith(value, settings) ==
    NewCurrency(parse(value, settings, TRUE), settings, pow(settings.precision))

\* new Currency(value, opts), with the module-level defaults being defs
Constructor(value, opts, defs) == ConstructWith(value, Merge(defs, opts))

\* add, once it parsed its argument to p on a truthy intValue
AddParsed(this, p, defs) ==
    IF p = Thrown THEN RThrow
    ELSE Constructor(NumVal(NumDiv(NumAdd(this.intValue, p), this._precision)),
                     this._settings, defs)

\* subtract, once it parsed its argument to p on a truthy intValue
SubtractParsed(this, p, defs) ==
    IF p = Thrown THEN RThrow
    ELSE Constructor(NumVal(NumDiv(NumSub(this.intValue, p), this._precision)),
                     this._settings, defs)

\* the last statement of add and of subtract, reached when intValue is falsy,
\* once it parsed its argument (with defaults) to p:
\* new Currency(p / defaults.precision, _settings)
FallbackParsed(this, p, defs) ==
    IF p = Thrown THEN RThrow
    ELSE Constructor(NumVal(NumDiv(p, Int2Num(defs.precision))), this._settings, defs)

\* Currency.add(number)
add(this, number, defs) ==
    IF Truthy(this.intValue) /\ Truthy(this._precision)
    THEN AddParsed(this, parse(number, this._settings, TRUE), defs)
    ELSE FallbackParsed(this, parse(number, defs, TRUE), defs)

\* Currency.subtract(number)
subtract(this, number, defs) ==
    IF Truthy(this.intValue) /\ Truthy(this._precision)
    THEN SubtractParsed(this, parse(number, this._settings, TRUE), defs)
    ELSE FallbackParsed(this, parse(number, defs, TRUE), defs)

\* ToNumber of the multiplier in `intValue *= number`
ToNumber(number) == IF number.t = "num" THEN number.num ELSE NaN

\* multiply without the test of intValue
multiplyUnguarded(this, number, defs) ==
    Constructor(
        NumVal(NumDiv(NumMul(this.intValue, ToNumber(number)),
                      pow(this._settings.precision))),
        this._settings, defs)

\* Currency.multiply(number)
multiply(this, number, defs) ==
    IF Truthy(this.intValue)
    THEN Constructor(
             NumVal(NumDiv(NumMul(this.intValue, ToNumber(number)),
                           pow(this._settings.precision))),
             this._settings, defs)
    ELSE RUndefined

\* divide, once it parsed its argument (without rounding) to p
DivideParsed(this, p, defs) ==
    IF p = Thrown THEN RThrow
    ELSE Constructor(NumVal(NumDiv(this.intValue, p)), this._settings, defs)

\* Currency.divide(number)
divide(this, number, defs) ==
    IF Truthy(this.intValue)
    THEN DivideParsed(this, parse(number, this._settings, FALSE), defs)
    ELSE RUndefined

\* let split = Math[intValue >= 0 ? 'floor' : 'ceil'](intValue / count)
SplitOf(this, count) ==
    IF NonNeg(this.intValue) THEN Floor(NumDiv(this.intValue, Int2Num(count)))
    ELSE Ceil(NumDiv(this.intValue, Int2Num(count)))

\* let pennies = Math.abs(intValue - split * count)
PenniesOf(this, split, count) ==
    NumAbs(NumSub(this.intValue, NumMul(split, Int2Num(count))))

\* item after `pennies-- > 0 && (item = intValue >= 0 ? item.add(1 / _precision)
\* : item.subtract(1 / _precision))`, take telling whether pennies-- > 0 held
WithPenny(this, item, take, defs) ==
    IF take
    THEN (IF NonNeg(this.intValue)
          THEN add(item, NumVal(NumDiv(Int2Num(1), this._precision)), defs).items[1]
          ELSE subtract(item, NumVal(NumDiv(Int2Num(1), this._precision)), defs).items[1])
    ELSE item

\* the entry the loop of distribute pushes in its i-th round (i = 1 first):
\* `pennies-- > 0` holds in round i iff pennies > i - 1
DistributeItem(this, split, pennies, i, defs) ==
    WithPenny(this,
              Constructor(NumVal(NumDiv(split, this._precision)),
                          this._settings, defs).items[1],
              IsFin(pennies) /\ pennies.n > (i - 1) * pennies.d,
              defs)

\* the array the loop of distribute fills: one round per unit of count
Distribution(this, count, split, pennies, defs) ==
    RArray([i \in 1..count |-> DistributeItem(this, split, pennies, i, defs)])

DistributeSplit(this, count, split, defs) ==
    Distribution(this, count, split, PenniesOf(this, split, count), defs)

\* Currency.distribute(count), count a positive integer
distribute(this, count, defs) ==
    IF Truthy(this.intValue) /\ Truthy(this._precision)
    THEN DistributeSplit(this, count, SplitOf(this, count), defs)
    ELSE RUndefined

\* ~~x: the integer part, Infinity and NaN giving 0
ToInt(x) == IF IsFin(x) THEN Int2Num(Sign(x.n) * (Abs(x.n) \div x.d)) ELSE Zero

\* a % b of JavaScript: the remainder has the sign of the dividend
Remainder(a, b) ==
    IF ~IsFin(a) \/ b.k = "nan" \/ (IsFin(b) /\ b.n = 0) THEN NaN
    ELSE IF b.k = "inf" THEN a
    ELSE NumSub(a, NumMul(b, ToInt(NumDiv(a, b))))

\* Currency.dollars()
dollars(this) == IF Truthy(this.value) THEN RNumber(ToInt(this.value)) ELSE RUndefined

\* Currency.cents()
cents(this) ==
    IF Truthy(this.intValue) /\ Truthy(this._precision)
    THEN RNumber(ToInt(Remainder(this.intValue, this._precision)))
    ELSE RUndefined

\* the digits toFixed prints for the parts of a finite number
PartsString(negative, parts, digits) ==
    (IF negative THEN <<"-">> ELSE <<>>) \o IntToDigits(parts.whole)
        \o (IF digits > 0 THEN <<".">> \o PadLeft(IntToDigits(parts.frac), digits)
            ELSE <<>>)

\* x.toFixed(digits) as a string
ToFixedString(x, digits) ==
    IF x.k = "nan" THEN <<"N", "a", "N">>
    ELSE IF x.k = "inf"
    THEN (IF x.n < 0 THEN <<"-">> ELSE <<>>) \o <<"I", "n", "f", "i", "n", "i", "t", "y">>
    ELSE PartsString(x.n < 0, FixedParts(x, digits), digits)

\* Currency.toString()
toString(this) ==
    IF Truthy(this.intValue) /\ Truthy(this._settings.increment)
           /\ Truthy(this._precision)
    THEN RString(ToFixedString(
                     rounding(NumDiv(this.intValue, this._precision),
                              this._settings.increment),
                     this._settings.precision))
    ELSE RUndefined

\* Currency.toJSON()
toJSON(this) == RNumber(this.value)

\* the number of digits that follow position i of s without interruption
RECURSIVE DigitRun(_, _)
DigitRun(s, i) ==
    IF i < Len(s) /\ IsDigit(s[i + 1]) THEN 1 + DigitRun(s, i + 1) ELSE 0

\* whether the digit at position i, followed by `run` digits, is one the
\* regular expression matches: groupRegex /(\d)(?=(\d{3})+\b)/g matches a digit
\* followed to the end by a multiple of three digits, vedicRegex
\* /(\d)(?=(\d\d)+\d\b)/g one followed to the end by an odd number, at least
\* three, of digits
GroupHere(s, i, run, groups) ==
    /\ IsDigit(s[i])
    /\ i + run = Len(s)
    /\ IF groups = "vedicRegex" THEN run >= 3 /\ run % 2 = 1
       ELSE run >= 3 /\ run % 3 = 0

\* dollars.replace(groups, '$1' + separator), from position i on, for a
\* string of digits (or one with no digit at all)
RECURSIVE GroupFrom(_, _, _, _)
GroupFrom(s, i, groups, separator) ==
    IF i > Len(s) THEN <<>>
    ELSE <<s[i]>>
             \o (IF GroupHere(s, i, DigitRun(s, i), groups) THEN separator ELSE <<>>)
             \o GroupFrom(s, i + 1, groups, separator)

\* str.split('.')[0]
Piece0(s) == IF "." \in Chars(s) THEN SubSeq(s, 1, FirstIndex(s, ".") - 1) ELSE s

\* what follows the first "." of s
AfterDot(s) ==
    IF "." \in Chars(s) THEN SubSeq(s, FirstIndex(s, ".") + 1, Len(s)) ELSE <<>>

\* str.split('.')[1]; <<>> stands for a piece that is empty or missing, which
\* format treats alike
Piece1(s) == Piece0(AfterDot(s))

\* this + '': what toString returned, "undefined" when it returned nothing
Printed(r) ==
    IF r.kind = "string" THEN r.str
    ELSE <<"u", "n", "d", "e", "f", "i", "n", "e", "d">>

\* .replace(/^-/, '')
Unsigned(str) == IF str # <<>> /\ str[1] = "-" THEN Tail(str) ELSE str

\* `${dollars.replace(groups, '$1' + separator)}${cents ? decimal + cents : ''}`
NumberText(unsigned, settings) ==
    GroupFrom(Piece0(unsigned), 1, settings.groups, settings.separator)
        \o (IF Piece1(unsigned) # <<>> THEN <<settings.decimal>> \o Piece1(unsigned)
            ELSE <<>>)

\* typeof useSymbol === 'undefined' && (useSymbol = formatWithSymbol)
UseSymbol(useSymbol, settings) ==
    IF useSymbol.t = "undef" THEN settings.formatWithSymbol ELSE Truthy(useSymbol.num)

\* Currency.format(useSymbol); useSymbol is a boolean or undefined
format(this, useSymbol) ==
    IF Truthy(this.value)
    THEN RString(
             ReplaceFirst(
                 ReplaceFirst(
                     IF NonNeg(this.value) THEN this._settings.pattern
                     ELSE this._settings.negativePattern,
                     "!",
                     IF UseSymbol(useSymbol, this._settings) THEN this._settings.symbol
                     ELSE <<>>),
                 "#",
                 NumberText(Unsigned(Printed(toString(this))), this._settings)))
    ELSE RUndefined

\* -------------------------------------------------------------- inputs
\* the opts objects callers construct values with
OptsList ==
    << <<>>,
       [errorOnInvalid |-> TRUE],
       [precision |-> 0, useVedic |-> TRUE, formatWithSymbol |-> TRUE],
       [increment |-> Fin(5, 100)],
       [separator |-> <<".">>, decimal |-> ",", formatWithSymbol |-> TRUE,
        pattern |-> <<"#", " ", "!">>, negativePattern |-> <<"(", "#", " ", "!", ")">>],
       [precision |-> 3, errorOnInvalid |-> TRUE] >>

\* the numbers callers pass: 0, integers, halves, hundredths and fortieths of
\* either sign
Numbers == {Fin(n, d) : n \in {-1, 0, 1, 2, 3}, d \in {1, 2, 40, 100}}

\* the strings callers pass
Strings ==
    { <<>>, <<"x">>, <<"1", ".", "2", ".", "3">>, <<"-">>,
      <<"(", "0", ".", "0", "5", ")">>, <<"$", "0", ".", "1", "2">>,
      <<"$", "1", ",", "2", "3", "4", ".", "5", "6">>, <<"1", ",", "5">> }

\* what a caller may pass where a number is expected
Operands ==
    {NumVal(x) : x \in Numbers}
        \cup {Undefined, StrVal(<<"x">>), StrVal(<<"0", ".", "0", "2">>)}

\* what a caller may construct a Currency from
Inputs ==
    {NumVal(x) : x \in Numbers \cup {Fin(1005, 1000), Int2Num(1234567)}}
        \cup {StrVal(str) : str \in Strings} \cup {Undefined}

\* --------------------------------------------------------------- state
VARIABLES
    defaults,   \* the module-level defaults object of source.ts
    this,       \* the Currency the caller holds: the receiver of the calls
    out,        \* the last call: its name, argument, opts and what it returned
    events,     \* emitter.events: event type -> array of handlers
    running,    \* the dispatch in progress or just finished
    calls       \* the handlers that dispatch has invoked, in order

currencyVars == <<defaults, this, out>>
emitterVars == <<events, running, calls>>
vars == <<defaults, this, out, events, running, calls>>

Call(op, arg, cfg, res) == [op |-> op, arg |-> arg, cfg |-> cfg, res |-> res]

NoCall == Call("none", Undefined, 0, RNone)

\* Object.assign(defaults, opts): the merge written into the defaults object
ConstructorDefaultsShared(defs, opts) == Merge(defs, opts)

\* Object.assign({}, defaults, opts) in the constructor writes into a fresh
\* object: the module-level defaults stay as they are
ConstructorDefaults(defs, opts) == defs

\* the defaults after a call that returned res, having constructed with opts
DefaultsAfter(res, opts) ==
    IF res.kind \in {"currency", "array"} THEN ConstructorDefaults(defaults, opts)
    ELSE defaults

\* a call op(arg) that returns res and may have constructed values with opts
Returns(op, arg, cfg, res, opts) ==
    /\ out' = Call(op, arg, cfg, res)
    /\ defaults' = DefaultsAfter(res, opts)

\* the object a call passed to the constructor as opts, afterwards:
\* Object.assign copies its fields into a fresh object, and the constructor
\* writes increment and groups to that copy
ConstructorOpts(opts) == opts

\* the receiver after a method that returned res: the method works on copies of
\* intValue and _precision, and hands _settings to the constructor
ReceiverAfter(res) ==
    IF res.kind \in {"currency", "array"}
    THEN [this EXCEPT !._settings = ConstructorOpts(this._settings)]
    ELSE this

\* a method op(arg) of the receiver that returns res
Method(op, arg, res) ==
    /\ Returns(op, arg, 0, res, this._settings)
    /\ this' = ReceiverAfter(res)
    /\ UNCHANGED emitterVars

\* the caller has dealt with what the last call returned
Idle == out.op = "none"

\* the caller constructs new values (by new, or by arithmetic on the receiver)
\* while it holds a receiver of at most MaxAmount smallest units
Bounded == IsFin(this.intValue) => Abs(this.intValue.n) <= MaxAmount

NoDispatch == [phase |-> "idle", type |-> "", index |-> 0, length |-> 0,
               registered |-> <<>>]

InitEmitter ==
    /\ events = <<>>
    /\ running = NoDispatch
    /\ calls = <<>>

\* the caller holds the Currency that res, a call of the constructor, returned
Holds(res) == res.kind = "currency" /\ this = res.items[1]

Init ==
    /\ defaults = DefaultsLiteral
    /\ \E value \in Inputs : \E i \in 1..Len(OptsList) :
           Holds(Constructor(value, OptsList[i], DefaultsLiteral))
    /\ out = NoCall
    /\ InitEmitter

\* new Currency(value, opts)
New(value, i) ==
    /\ Idle
    /\ Bounded
    /\ Returns("new", value, i, Constructor(value, OptsList[i], defaults), OptsList[i])
    /\ UNCHANGED <<this, emitterVars>>

\* this.add(number)
Add(number) ==
    /\ Idle
    /\ Bounded
    /\ Method("add", number, add(this, number, defaults))

\* this.subtract(number)
Subtract(number) ==
    /\ Idle
    /\ Bounded
    /\ Method("subtract", number, subtract(this, number, defaults))

\* this.multiply(number)
Multiply(number) ==
    /\ Idle
    /\ Bounded
    /\ number.t \in {"num", "undef"}
    /\ Method("multiply", number, multiply(this, number, defaults))

\* this.divide(number)
Divide(number) ==
    /\ Idle
    /\ Bounded
    /\ Method("divide", number, divide(this, number, defaults))

\* this.distribute(count)
Distribute(count) ==
    /\ Idle
    /\ Bounded
    /\ Method("distribute", NumVal(Int2Num(count)), distribute(this, count, defaults))

\* this.dollars()
Dollars ==
    /\ Idle
    /\ out' = Call("dollars", Undefined, 0, dollars(this))
    /\ UNCHANGED <<defaults, this, emitterVars>>

\* this.cents()
Cents ==
    /\ Idle
    /\ out' = Call("cents", Undefined, 0, cents(this))
    /\ UNCHANGED <<defaults, this, emitterVars>>

\* this.toString()
ToStr ==
    /\ Idle
    /\ out' = Call("toString", Undefined, 0, toString(this))
    /\ UNCHANGED <<defaults, this, emitterVars>>

\* this.toJSON()
ToJSON ==
    /\ Idle
    /\ out' = Call("toJSON", Undefined, 0, toJSON(this))
    /\ UNCHANGED <<defaults, this, emitterVars>>

\* this.format(useSymbol)
Format(useSymbol) ==
    /\ Idle
    /\ out' = Call("format", useSymbol, 0, format(this, useSymbol))
    /\ UNCHANGED <<defaults, this, emitterVars>>

\* what format returned, as an argument of the constructor
FormatOutput(res) == IF res.kind = "string" THEN StrVal(res.str) ELSE Undefined

\* new Currency(this.format(useSymbol), this._settings): the caller constructs
\* a value from what format just returned
Reparse ==
    /\ out.op = "format"
    /\ Method("reparse", FormatOutput(out.res),
              Constructor(FormatOutput(out.res), this._settings, defaults))

\* the caller goes on with the k-th Currency the last call returned
Use(k) ==
    /\ out.res.kind \in {"currency", "array"}
    /\ k \in 1..Len(out.res.items)
    /\ this' = out.res.items[k]
    /\ out' = NoCall
    /\ UNCHANGED <<defaults, emitterVars>>

\* the caller drops what the last call returned
Drop ==
    /\ ~Idle
    /\ out' = NoCall
    /\ UNCHANGED <<defaults, this, emitterVars>>

Next ==
    \/ \E value \in Inputs : \E i \in 1..Len(OptsList) : New(value, i)
    \/ \E number \in Operands \cup {CurVal(this)} : Add(number)
    \/ \E number \in Operands \cup {CurVal(this)} : Subtract(number)
    \/ \E number \in Operands : Multiply(number)
    \/ \E number \in Operands \cup {CurVal(this)} : Divide(number)
    \/ \E count \in 1..MaxCount : Distribute(count)
    \/ Dollars
    \/ Cents
    \/ ToStr
    \/ ToJSON
    \/ \E useSymbol \in {Undefined, BoolVal(TRUE), BoolVal(FALSE)} : Format(useSymbol)
    \/ Reparse
    \/ \E k \in 1..MaxCount : Use(k)
    \/ Drop

Spec == Init /\ [][Next]_vars

\* ------------------------------------------------------------- emitter
\* the event types and the handler functions callers register
Types == {"a", "b"}

Handlers == {"plain", "offSelf", "onPlain", "offPlain"}

\* what a handler does when it is invoked for an event of type `type`: nothing,
\* or one call of off(type, handler) or on(type, handler) on the same emitter
Body(handler, type) ==
    CASE handler = "offSelf" -> [do |-> "off", type |-> type, handler |-> "offSelf"]
      [] handler = "onPlain" -> [do |-> "on", type |-> type, handler |-> "plain"]
      [] handler = "offPlain" -> [do |-> "off", type |-> type, handler |-> "plain"]
      [] OTHER -> [do |-> "nothing", type |-> type, handler |-> handler]

\* this.events.hasOwnProperty(type)
hasOwnProperty(ev, type) == type \in DOMAIN ev

\* emitter.on(type, handler): the events after the call
on(ev, type, handler) ==
    IF hasOwnProperty(ev, type)
    THEN [ev EXCEPT ![type] = Append(ev[type], handler)]
    ELSE [t \in DOMAIN ev \cup {type} |-> IF t = type THEN <<handler>> ELSE ev[t]]

\* array.indexOf(handler), counted from 1; 0 when the array does not hold it
indexOf(array, handler) ==
    IF \E i \in 1..Len(array) : array[i] = handler
    THEN CHOOSE i \in 1..Len(array) :
             array[i] = handler /\ \A h \in 1..(i - 1) : array[h] # handler
    ELSE 0

\* array.splice(i, 1), i counted from 1
splice(array, i) == SubSeq(array, 1, i - 1) \o SubSeq(array, i + 1, Len(array))

\* emitter._offByHandler(type, handler): the events after the call
offByHandler(ev, type, handler) ==
    IF ~hasOwnProperty(ev, type) THEN ev
    ELSE IF indexOf(ev[type], handler) > 0
    THEN [ev EXCEPT ![type] = splice(ev[type], indexOf(ev[type], handler))]
    ELSE ev

\* emitter._offByType(type): the events after the call
offByType(ev, type) == [t \in DOMAIN ev \ {type} |-> ev[t]]

\* emitter._offAll(): the events after the call
offAll == <<>>

\* emitter.off(type, handler) called with argc arguments; "undefined" stands
\* for a handler that was not given
off(ev, argc, type, handler) ==
    IF argc = 0 THEN offAll
    ELSE IF handler = "undefined" THEN offByType(ev, type)
    ELSE offByHandler(ev, type, handler)

\* the events after a handler ran its body
AfterBody(ev, body) ==
    CASE body.do = "on" -> on(ev, body.type, body.handler)
      [] body.do = "off" -> off(ev, 2, body.type, body.handler)
      [] OTHER -> ev

\* the number of handlers of the array that register a handler when invoked
Registering(array, type) ==
    Cardinality({i \in 1..Len(array) : Body(array[i], type).do = "on"})

\* no dispatch is in progress: the emitter's methods run to completion
Settled == running.phase # "running"

\* emitter.on(type, handler), called by the program
On(type, handler) ==
    /\ Settled
    /\ hasOwnProperty(events, type) => Len(events[type]) < MaxHandlers
    /\ events' = on(events, type, handler)
    /\ running' = NoDispatch
    /\ calls' = <<>>
    /\ UNCHANGED currencyVars

\* emitter.off(), emitter.off(type) and emitter.off(type, handler), called by
\* the program
Off(argc, type, handler) ==
    /\ Settled
    /\ events' = off(events, argc, type, handler)
    /\ running' = NoDispatch
    /\ calls' = <<>>
    /\ UNCHANGED currencyVars

\* emitter.trigger(type) up to the forEach of _dispatch: the event type has
\* handlers, and forEach fixes the number of indexes it will visit (the array
\* has room for what its handlers will register)
Trigger(type) ==
    /\ Settled
    /\ hasOwnProperty(events, type)
    /\ Len(events[type]) + Registering(events[type], type) <= MaxHandlers
    /\ running' = [phase |-> "running", type |-> type, index |-> 0,
                   length |-> Len(events[type]), registered |-> events[type]]
    /\ calls' = <<>>
    /\ UNCHANGED <<events, currencyVars>>

\* emitter.trigger(type) for a type that has no own property in events:
\* _dispatch returns at once
TriggerNothing(type) ==
    /\ Settled
    /\ ~hasOwnProperty(events, type)
    /\ running' = [NoDispatch EXCEPT !.phase = "done", !.type = type]
    /\ calls' = <<>>
    /\ UNCHANGED <<events, currencyVars>>

\* one round of handlers.forEach: the index is in the array, its handler is
\* invoked and runs its body
Invoke ==
    /\ running.phase = "running"
    /\ running.index < running.length
    /\ running.index < Len(events[running.type])
    /\ calls' = Append(calls, events[running.type][running.index + 1])
    /\ events' = AfterBody(events,
                           Body(events[running.type][running.index + 1], running.type))
    /\ running' = [running EXCEPT !.index = running.index + 1]
    /\ UNCHANGED currencyVars

\* one round of handlers.forEach at an index the array no longer has: no
\* handler is invoked
Skip ==
    /\ running.phase = "running"
    /\ running.index < running.length
    /\ running.index >= Len(events[running.type])
    /\ running' = [running EXCEPT !.index = running.index + 1]
    /\ UNCHANGED <<events, calls, currencyVars>>

\* forEach is through: _dispatch and trigger return
Return ==
    /\ running.phase = "running"
    /\ running.index = running.length
    /\ running' = [running EXCEPT !.phase = "done"]
    /\ UNCHANGED <<events, calls, currencyVars>>

InitE ==
    /\ defaults = DefaultsLiteral
    /\ Holds(Constructor(NumVal(Zero), <<>>, DefaultsLiteral))
    /\ out = NoCall
    /\ InitEmitter

NextE ==
    \/ \E type \in Types : \E handler \in Handlers : On(type, handler)
    \/ \E type \in Types : \E handler \in Handlers \cup {"undefined"} :
           \E argc \in {0, 1, 2} :
               /\ argc = 0 => type = "a"
               /\ argc < 2 <=> handler = "undefined"
               /\ Off(argc, type, handler)
    \/ \E type \in Types : Trigger(type)
    \/ \E type \in Types : TriggerNothing(type)
    \/ Invoke
    \/ Skip
    \/ Return

SpecE == InitE /\ [][NextE]_vars

\* -------------------------------------------------------------- claims
\* the Currency values the last call returned
Returned == {out.res.items[i] : i \in 1..Len(out.res.items)}

RECURSIVE SumIntValues(_)
SumIntValues(items) ==
    IF items = <<>> THEN Zero
    ELSE NumAdd(items[1].intValue, SumIntValues(Tail(items)))

\* the receiver holds an amount: an integer number of smallest units
Amount == IsInteger(this.intValue)

\* C1: the intValues of the values x.distribute(n) returns sum to x.intValue,
\* for every amount x and every positive integer n.
C1_DistributionConserves ==
    (out.op = "distribute" /\ Amount /\ out.res.kind = "array")
        => SumIntValues(out.res.items) = this.intValue

\* C2: the intValue of every Currency that exists (the receiver and whatever
\* the last call returned) is an integer, after any sequence of constructions
\* and arithmetic calls with numeric operands.
C2_IntValueIsInteger ==
    /\ IsInteger(this.intValue)
    /\ (out.arg.t = "num" /\ out.op \in {"new", "add", "subtract", "multiply",
                                          "divide", "distribute"})
           => \A c \in Returned : IsInteger(c.intValue)

\* C3: no call changes the receiver's intValue, value, _precision or _settings,
\* nor the module-level defaults: every step that is a call (it sets out to the
\* call and its result) leaves this and defaults as they were; what a call
\* returns is held in out, apart from the receiver.
C3_ReceiverAndDefaultsUnchanged ==
    [][out'.op # "none" => (this' = this /\ defaults' = defaults)]_vars

\* C3 witness: an arithmetic call on a non-zero receiver has returned a
\* Currency of another amount, and a settings-carrying construction happened.
C3_Witness ==
    /\ out.op \in {"add", "subtract", "multiply", "divide"}
    /\ Truthy(this.intValue)
    /\ this._settings.errorOnInvalid
    /\ out.res.kind = "currency"
    /\ out.res.items[1].intValue # this.intValue

\* b is a number with at most `precision` decimals
Representable(b, precision) == IsFin(b) /\ Pow10(precision) % b.d = 0

\* C4: a.add(b).intValue = a.intValue + parse(b) and a.subtract(b).intValue =
\* a.intValue - parse(b), parse under a's configuration, for every amount a
\* (zero included) and every number b representable at a's precision.
C4_Additivity ==
    (/\ out.op \in {"add", "subtract"}
     /\ Amount
     /\ out.arg.t = "num"
     /\ Representable(out.arg.num, this._settings.precision))
        => /\ out.res.kind = "currency"
           /\ out.res.items[1].intValue =
                  IF out.op = "add"
                  THEN NumAdd(this.intValue, parse(out.arg, this._settings, TRUE))
                  ELSE NumSub(this.intValue, parse(out.arg, this._settings, TRUE))

\* the errorOnInvalid setting of the value the last call concerned: the one
\* under construction for the constructor, the receiver otherwise
ErrorOnInvalidConcerned ==
    IF out.op = "new" THEN Merge(defaults, OptsList[out.cfg]).errorOnInvalid
    ELSE this._settings.errorOnInvalid

\* the last call parsed its argument
ParsedArgument ==
    \/ out.op \in {"new", "reparse", "add", "subtract"}
    \/ out.op = "divide" /\ Truthy(this.intValue)

\* C5: a call of the constructor, add, subtract or divide that parses an
\* operand that is not a number, a string or a Currency throws 'Invalid Input'
\* if and only if errorOnInvalid is set for the value concerned, whatever the
\* receiver's amount; number and string operands never throw.
C5_InvalidInput ==
    ParsedArgument
        => /\ out.arg.t = "undef" => (out.res.kind = "throw" <=> ErrorOnInvalidConcerned)
           /\ out.arg.t \in {"num", "str"} => out.res.kind # "throw"

\* the integer nearest to x, an exact tie resolved away from zero
RoundHalfAwayFromZero(x) ==
    Int2Num(Sign(x.n) * ((Abs(x.n) \div x.d)
                         + (IF 2 * (Abs(x.n) % x.d) >= x.d THEN 1 ELSE 0)))

\* C6: constructing from a number x gives the integer nearest to
\* x * 10^precision (after the rounding to 4 decimals), an exact tie resolved
\* away from zero, for positive and negative x.
C6_RoundHalfAwayFromZero ==
    (out.op = "new" /\ out.arg.t = "num" /\ out.res.kind = "currency")
        => out.res.items[1].intValue =
               RoundHalfAwayFromZero(
                   ToFixedNum(NumMul(out.arg.num,
                                     pow(out.res.items[1]._settings.precision)), 4))

\* C7: on a receiver whose intValue is 0, multiply, divide and distribute
\* return undefined and construct nothing; on a receiver whose intValue is a
\* non-zero integer, multiply and divide (of a number, as their signatures
\* declare) return a Currency and distribute returns an array.
C7_ZeroReceiverGuard ==
    (out.op \in {"multiply", "divide", "distribute"} /\ out.arg.t = "num" /\ Amount)
        => IF this.intValue = Zero
           THEN out.res.kind = "undefined" /\ out.res.items = <<>>
           ELSE IF out.op = "distribute"
           THEN out.res.kind = "array"
           ELSE out.res.kind = "currency" /\ Len(out.res.items) = 1

\* C7 witness: multiply was called on a zero receiver and returned undefined.
C7_Witness ==
    /\ out.op = "multiply"
    /\ out.arg.t = "num"
    /\ this.intValue = Zero
    /\ out.res.kind = "undefined"

\* the share distribute is claimed to give entry i of count entries of amount n
ClaimedShare(n, count, split, i) ==
    IF i <= Abs(n - split * count)
    THEN (IF n >= 0 THEN split + 1 ELSE split - 1)
    ELSE split

\* floor(n / count) for n >= 0, ceil(n / count) otherwise
ClaimedSplit(n, count) == IF n >= 0 THEN n \div count ELSE -((-n) \div count)

\* C8: for a non-zero amount x and a positive integer count, x.distribute(count)
\* returns count values, the first r = |intValue - split * count| of intValue
\* split + 1 (split - 1 for a negative amount), the others of intValue split.
C8_DistributionShape ==
    (out.op = "distribute" /\ Amount /\ this.intValue # Zero)
        => /\ out.res.kind = "array"
           /\ Len(out.res.items) = out.arg.num.n
           /\ \A i \in 1..Len(out.res.items) :
                  out.res.items[i].intValue =
                      Int2Num(ClaimedShare(this.intValue.n, out.arg.num.n,
                                           ClaimedSplit(this.intValue.n, out.arg.num.n),
                                           i))

\* C9: constructing a Currency from x.format() with x's configuration gives
\* x.intValue again, for every amount x (zero included) under every
\* configuration.
C9_FormatRoundTrip ==
    (out.op = "reparse" /\ Amount)
        => /\ out.res.kind = "currency"
           /\ out.res.items[1].intValue = this.intValue

\* C10: trigger(type) invokes every handler registered for the type when
\* trigger is called, once per registration and in registration order, also
\* when handlers call on or off during the dispatch.
C10_DispatchInvokesRegistered ==
    running.phase = "done" => calls = running.registered

====
